---- MODULE Spec2Model ----
(***************************************************************************)
(* Model of the API-key authorization, quota accounting and cache-aside    *)
(* layers of eon-geo-api: CacheService (services/cache.service.ts),        *)
(* AuthService (services/auth.service.ts), the authentication and          *)
(* per-key rate-limit middlewares and the protected route chain.           *)
(*                                                                         *)
(* Time is the JavaScript clock, Date.now(), in milliseconds.  The Redis   *)
(* server is a map from keys to the serialized envelope plus the instant   *)
(* at which Redis itself drops the key (SETEX).  Every await on the cache  *)
(* service is one atomic step; handlers of different requests interleave   *)
(* between those steps.                                                     *)
(***************************************************************************)
EXTENDS Integers, Sequences, FiniteSets, TLC

VARIABLES
    now,          \* Date.now(), milliseconds
    ticks,        \* number of clock advances so far (bounds the run)
    isConnected,  \* CacheService.isConnected
    storeUp,      \* the Redis server answers commands (else a command throws)
    store,        \* Redis: key -> entry
    ret,          \* what the last direct CacheService call returned
    lag,          \* ms from Date.now() in set() to Redis taking the SETEX
    tz,           \* the host's offset from UTC, ms (local = UTC + tz)
    proc,         \* the requests and admin calls in flight
    issued,       \* secrets generateApiKey has produced
    ops,          \* operations started so far (bounds the run)
    recorded,     \* history: completed recordUsage calls per usage key
    revokedOk,    \* history: secrets for which revokeApiKey returned true
    geo,          \* the geocodeCep calls in flight
    opencage,     \* config.apiKeys.opencage is set
    geoLog        \* history: the results geocodeCep wrote to the cache, in order

envVars == <<now, ticks, isConnected, storeUp>>
authVars == <<lag, tz, proc, issued, ops, recorded, revokedOk>>
geoVars == <<geo, opencage, geoLog>>
vars == <<now, ticks, isConnected, storeUp, store, ret, lag, tz, proc, issued, ops, recorded, revokedOk,
          geo, opencage, geoLog>>

(***************************************************************************)
(* Bounds and program constants                                            *)
(***************************************************************************)
MaxTicks == 3            \* clock advances in one run
MaxLag == 1              \* largest client-to-Redis delay, ms

MsPerSecond == 1000      \* cacheEntry.ttl * 1000
RedisTtl == 86400        \* config.redis.ttl, REDIS_TTL default
DayMs == 24 * 60 * 60 * 1000
HalfDayMs == DayMs \div 2
TickSteps == {1, HalfDayMs}

(***************************************************************************)
(* Values.  A time value is a Date object, the ISO string JSON.stringify   *)
(* turns it into, or undefined.                                            *)
(***************************************************************************)
Undefined == [type |-> "undefined", t |-> 0]
DateOf(t) == [type |-> "Date", t |-> t]
IsTimeValue(v) == DOMAIN v = {"type", "t"}

\* JSON.parse(JSON.stringify(v)): a Date comes back as its ISO string, an
\* undefined field is dropped (and reads back as undefined), records recurse.
RECURSIVE JsonRoundTrip(_)
JsonRoundTrip(v) ==
    IF IsTimeValue(v)
    THEN IF v.type = "Date" THEN [type |-> "string", t |-> v.t] ELSE v
    ELSE [f \in DOMAIN v |->
            IF f \in {"usage", "createdAt", "updatedAt", "expiresAt", "lastUsedAt",
                       "lastResetDate"}
            THEN JsonRoundTrip(v[f])
            ELSE v[f]]

\* `new Date() > x` : a Date operand converts to its time value, a string
\* operand to a number; an ISO date string converts to NaN and every
\* comparison with NaN is false.
DateGreaterThan(t, x) ==
    IF x.type = "Date" THEN t > x.t ELSE FALSE

\* JavaScript truthiness of an optional time value
Truthy(x) == x.type # "undefined"

(***************************************************************************)
(* Postal codes (utils/cep.util.ts).  A string is the sequence of its      *)
(* characters.                                                             *)
(***************************************************************************)
Digits == {"0", "1", "2", "3", "4", "5", "6", "7", "8", "9"}

\* cep.replace(/\D/g, '')
FormatCep(cep) == SelectSeq(cep, LAMBDA ch : ch \in Digits)

\* isValidCep: non-empty, exactly 8 digits once cleaned, not one digit repeated
IsValidCep(cep) ==
    IF cep = <<>> THEN FALSE
    ELSE LET cleanCep == FormatCep(cep) IN
         IF Len(cleanCep) # 8 THEN FALSE
         ELSE IF \A i \in 1..8 : cleanCep[i] = cleanCep[1] THEN FALSE
         ELSE TRUE

\* validateCepOrThrow: the message of the Error thrown, "" when it returns
ValidateCepOrThrow(cep) ==
    IF cep = <<>> THEN "CEP is required"
    ELSE IF ~IsValidCep(cep) THEN "CEP format is invalid. CEP must contain 8 digits"
    ELSE ""

\* the inputs a run draws from: 01310-100 with and without its hyphen, a
\* short code, a repeated digit and the empty string
CepInputs ==
    {<<"0", "1", "3", "1", "0", "-", "1", "0", "0">>,
     <<"0", "1", "3", "1", "0", "1", "0", "0">>,
     <<"0", "1", "3", "1">>,
     <<"1", "1", "1", "1", "1", "1", "1", "1">>,
     <<>>}

\* the strings a validation run draws from: 01310100 and 11111111, each with
\* up to MaxInserted characters that are not digits put in anywhere, and
\* the same with one character taken out or one digit added at the end
MaxInserted == 2
BaseCeps ==
    {<<"0", "1", "3", "1", "0", "1", "0", "0">>,
     <<"1", "1", "1", "1", "1", "1", "1", "1">>}
OtherChars == {"-", ".", " ", "a"}
InsertAt(s, i, c) == SubSeq(s, 1, i) \o <<c>> \o SubSeq(s, i + 1, Len(s))
RemoveAt(s, i) == SubSeq(s, 1, i - 1) \o SubSeq(s, i + 1, Len(s))
RECURSIVE Inserted(_)
Inserted(n) ==
    IF n = 0 THEN BaseCeps
    ELSE LET S == Inserted(n - 1)
         IN S \cup UNION {{InsertAt(s, i, c) : i \in 0..Len(s), c \in OtherChars} : s \in S}
CepStrings(n) ==
    LET S == Inserted(n)
    IN S \cup UNION {{RemoveAt(s, i) : i \in 1..Len(s)} : s \in S}
         \cup {s \o <<"0">> : s \in S}
         \cup {<<>>}

\* cepSchema: Joi.string().pattern(/^\d{5}-?\d{3}$/).required()
CepSchema(cep) ==
    \/ Len(cep) = 8 /\ \A i \in 1..8 : cep[i] \in Digits
    \/ /\ Len(cep) = 9
       /\ cep[6] = "-"
       /\ \A i \in (1..9) \ {6} : cep[i] \in Digits

(***************************************************************************)
(* Redis                                                                   *)
(***************************************************************************)
Ceps == {FormatCep(cep) : cep \in {c \in CepInputs : IsValidCep(c)}}
\* cacheService.generateKey('geocoding', cleanCep)
GenerateKey(prefix, part) == <<prefix, part>>
GeoKeys == {GenerateKey("geocoding", c) : c \in Ceps}

NoData == [none |-> TRUE]
NoEntry == [present |-> FALSE, data |-> NoData, timestamp |-> 0, ttl |-> 0, expireAt |-> 0]

\* client.get(key): Redis answers nil for a key it has expired
RedisGet(st, key, t) ==
    IF st[key].present /\ t <= st[key].expireAt THEN st[key] ELSE NoEntry

\* client.setEx(key, ttl, JSON.stringify(cacheEntry)); Redis counts the ttl
\* from the instant it takes the command, lag ms after the client's Date.now()
RedisSetEx(st, key, ttl, entry, t, delay) ==
    [st EXCEPT ![key] = [present |-> TRUE, data |-> JsonRoundTrip(entry.data),
                         timestamp |-> entry.timestamp, ttl |-> entry.ttl,
                         expireAt |-> t + delay + ttl * MsPerSecond]]

\* client.del(key)
RedisDel(st, key) == [st EXCEPT ![key] = NoEntry]

(***************************************************************************)
(* CacheService                                                            *)
(***************************************************************************)
Null == [null |-> TRUE]
NoRet == [op |-> "none", key |-> <<"none", <<>>>>, value |-> Null, path |-> "none"]

\* CacheService.delete(key): the store after the call
CacheDelete(st, key, conn, up) ==
    IF ~conn THEN st
    ELSE IF ~up THEN st          \* client.del throws, caught
    ELSE RedisDel(st, key)

\* the expiry test with `>=` for `>`
EntryExpiredAtDeadline(entry, t) == t >= entry.timestamp + entry.ttl * MsPerSecond

\* the expiry test of CacheService.get
EntryExpired(entry, t) == t > entry.timestamp + entry.ttl * MsPerSecond

\* CacheService.get(key): [value, path, store]
CacheGet(st, key, t, conn, up) ==
    IF ~conn THEN [value |-> Null, path |-> "disconnected", store |-> st]
    ELSE IF ~up THEN [value |-> Null, path |-> "error", store |-> st]
    ELSE LET e == RedisGet(st, key, t) IN
         IF ~e.present THEN [value |-> Null, path |-> "miss", store |-> st]
         ELSE IF EntryExpired(e, t)
              THEN [value |-> Null, path |-> "expired",
                    store |-> CacheDelete(st, key, conn, up)]
              ELSE [value |-> e.data, path |-> "hit", store |-> st]

\* const ttl = ttlSeconds || config.redis.ttl  (0 and undefined are falsy)
EffectiveTtl(ttlSeconds) == IF ttlSeconds = 0 THEN RedisTtl ELSE ttlSeconds

\* set without the isConnected guard
CacheSetUnguarded(st, key, value, ttlSeconds, t, delay, conn, up) ==
    IF ~up THEN st
    ELSE LET ttl == EffectiveTtl(ttlSeconds) IN
         RedisSetEx(st, key, ttl, [data |-> value, timestamp |-> t, ttl |-> ttl], t, delay)

\* CacheService.set(key, value, ttlSeconds): the store after the call
CacheSet(st, key, value, ttlSeconds, t, delay, conn, up) ==
    IF ~conn THEN st
    ELSE IF ~up THEN st          \* client.setEx throws, caught
    ELSE LET ttl == EffectiveTtl(ttlSeconds) IN
         RedisSetEx(st, key, ttl, [data |-> value, timestamp |-> t, ttl |-> ttl], t, delay)

(***************************************************************************)
(* Environment: the clock and the Redis connection                         *)
(***************************************************************************)
Tick(d) ==
    /\ ticks < MaxTicks
    /\ now' = now + d
    /\ ticks' = ticks + 1
    /\ UNCHANGED <<isConnected, storeUp, store, ret, authVars, geoVars>>

\* the server stops answering; the client has not noticed yet
StoreDown ==
    /\ storeUp
    /\ storeUp' = FALSE
    /\ UNCHANGED <<now, ticks, isConnected, store, ret, authVars, geoVars>>

\* client.on('error') / client.on('disconnect')
ErrorEvent ==
    /\ ~storeUp /\ isConnected
    /\ isConnected' = FALSE
    /\ UNCHANGED <<now, ticks, storeUp, store, ret, authVars, geoVars>>

StoreBack ==
    /\ ~storeUp
    /\ storeUp' = TRUE
    /\ UNCHANGED <<now, ticks, isConnected, store, ret, authVars, geoVars>>

\* client.on('connect')
ConnectEvent ==
    /\ storeUp /\ ~isConnected
    /\ isConnected' = TRUE
    /\ UNCHANGED <<now, ticks, storeUp, store, ret, authVars, geoVars>>

Env ==
    \/ StoreDown
    \/ ErrorEvent
    \/ StoreBack
    \/ ConnectEvent

(***************************************************************************)
(* API keys (types/auth.types.ts)                                          *)
(***************************************************************************)
API_KEY_PREFIX == "eon_"

\* A secret is <<prefix, rest>>; generateApiKey yields eon_<time>_<random>.
Secrets == {<<"eon_", "a">>}
NoKey == <<"", "">>                 \* no key presented (or an empty one)
BadKey == <<"key_", "a">>           \* a key without the prefix
KeyInputs == Secrets \cup {NoKey, BadKey}
\* the variant of the test below that every key passes
StartsWithAnything(key, prefix) == TRUE
\* key.startsWith(prefix)
StartsWith(key, prefix) == key[1] = prefix
IdOf(secret) == secret[2]           \* crypto.randomUUID(), one per key

Plans == {"free", "basic", "premium", "enterprise"}
AllPermissions == {"geocoding:read", "distance:read", "admin:read", "admin:write"}

\* requestsPerDay of RATE_LIMIT_PLANS, scaled down (1000, 10000, 50000,
\* 200000 in the source) so that a run can exhaust a quota.
FreePerDay == 2
BasicPerDay == 3
PremiumPerDay == 4
EnterprisePerDay == 5

RATE_LIMIT_PLANS(plan) ==
    CASE plan = "free" ->
           [requestsPerMinute |-> 10, requestsPerHour |-> 100,
            requestsPerDay |-> FreePerDay, requestsPerMonth |-> 10000]
      [] plan = "basic" ->
           [requestsPerMinute |-> 60, requestsPerHour |-> 1000,
            requestsPerDay |-> BasicPerDay, requestsPerMonth |-> 100000]
      [] plan = "premium" ->
           [requestsPerMinute |-> 300, requestsPerHour |-> 5000,
            requestsPerDay |-> PremiumPerDay, requestsPerMonth |-> 1000000]
      [] plan = "enterprise" ->
           [requestsPerMinute |-> 1000, requestsPerHour |-> 20000,
            requestsPerDay |-> EnterprisePerDay, requestsPerMonth |-> 5000000]

DEFAULT_PERMISSIONS(plan) ==
    CASE plan = "free" -> {"geocoding:read"}
      [] plan = "basic" -> {"geocoding:read", "distance:read"}
      [] plan = "premium" -> {"geocoding:read", "distance:read"}
      [] plan = "enterprise" -> {"geocoding:read", "distance:read", "admin:read"}

\* a rateLimit in the body of a create request
CallerRateLimit ==
    [requestsPerMinute |-> 1000000, requestsPerHour |-> 1000000,
     requestsPerDay |-> 1000000, requestsPerMonth |-> 1000000]

\* the create requests a run draws from: a plan with the default
\* permissions, or the master key; with or without expiresInDays, with or
\* without a rateLimit of the caller's
CreateRequests ==
    {[plan |-> "free", permissions |-> {}, expiresInDays |-> 0],
     [plan |-> "basic", permissions |-> {}, expiresInDays |-> 1,
      rateLimit |-> CallerRateLimit],
     [plan |-> "enterprise", permissions |-> AllPermissions, expiresInDays |-> 0]}

ZeroUsage(t) ==
    [totalRequests |-> 0, requestsToday |-> 0, requestsThisMonth |-> 0,
     lastResetDate |-> DateOf(t)]

\* the variant of the object below that takes the rateLimit of the request
NewApiKeyCallerLimits(secret, request, t) ==
    [id |-> IdOf(secret),
     key |-> secret,
     plan |-> request.plan,
     status |-> "active",
     permissions |-> IF request.permissions # {} THEN request.permissions
                     ELSE DEFAULT_PERMISSIONS(request.plan),
     rateLimit |-> IF "rateLimit" \in DOMAIN request THEN request.rateLimit
                   ELSE RATE_LIMIT_PLANS(request.plan),
     usage |-> ZeroUsage(t),
     createdAt |-> DateOf(t),
     updatedAt |-> DateOf(t),
     expiresAt |-> IF request.expiresInDays # 0
                   THEN DateOf(t + request.expiresInDays * DayMs)
                   ELSE Undefined,
     lastUsedAt |-> Undefined]

\* the ApiKey object createApiKey builds
NewApiKey(secret, request, t) ==
    [id |-> IdOf(secret),
     key |-> secret,
     plan |-> request.plan,
     status |-> "active",
     permissions |-> IF request.permissions # {} THEN request.permissions
                     ELSE DEFAULT_PERMISSIONS(request.plan),
     rateLimit |-> RATE_LIMIT_PLANS(request.plan),
     usage |-> ZeroUsage(t),
     createdAt |-> DateOf(t),
     updatedAt |-> DateOf(t),
     expiresAt |-> IF request.expiresInDays # 0
                   THEN DateOf(t + request.expiresInDays * DayMs)
                   ELSE Undefined,
     lastUsedAt |-> Undefined]

\* the CreateApiKeyResponse createApiKey returns
CreateApiKeyResponse(apiKey) ==
    [id |-> apiKey.id, key |-> apiKey.key, plan |-> apiKey.plan,
     permissions |-> apiKey.permissions, rateLimit |-> apiKey.rateLimit,
     createdAt |-> apiKey.createdAt, expiresAt |-> apiKey.expiresAt]

\* store keys
ApiKeyCacheKey(secret) == <<"apikey", secret>>
UtcDay(t) == t \div DayMs           \* now.toISOString().split('T')[0]
\* the variant of the key below that leaves the date out
UsageKeyNoDay(id, t) == <<"usage", id, 0>>
\* usage:<id>:<date>
UsageKey(id, t) == <<"usage", id, UtcDay(t)>>
MaxDay == (MaxTicks * HalfDayMs + MaxTicks) \div DayMs
UsageKeys == {<<"usage", IdOf(s), d>> : s \in Secrets, d \in 0..MaxDay}
ApiKeyKeys == {ApiKeyCacheKey(s) : s \in Secrets}
StoreKeys == GeoKeys \cup ApiKeyKeys \cup UsageKeys

UsageTtl == 24 * 60 * 60            \* recordUsage: "Store usage with 24h TTL"

\* resetTime.setHours(24, 0, 0, 0): midnight of the next day in the host's
\* local time, as a UTC instant
NextLocalMidnight(t, offset) == (((t + offset) \div DayMs) + 1) * DayMs - offset

\* checkRateLimit with `>` for `>=`: one request too many
CheckRateLimitOffByOne(apiKey, cached, t, offset) ==
    LET usage == IF cached = Null THEN ZeroUsage(t) ELSE cached IN
    IF usage.requestsToday > apiKey.rateLimit.requestsPerDay
    THEN [allowed |-> FALSE, remaining |-> 0, resetTime |-> NextLocalMidnight(t, offset)]
    ELSE [allowed |-> TRUE,
          remaining |-> apiKey.rateLimit.requestsPerDay - usage.requestsToday,
          resetTime |-> t + DayMs]

\* checkRateLimit that denies when it cannot read the usage record
CheckRateLimitFailClosed(apiKey, cached, t, offset) ==
    IF cached = Null
    THEN [allowed |-> FALSE, remaining |-> 0, resetTime |-> NextLocalMidnight(t, offset)]
    ELSE IF cached.requestsToday >= apiKey.rateLimit.requestsPerDay
    THEN [allowed |-> FALSE, remaining |-> 0, resetTime |-> NextLocalMidnight(t, offset)]
    ELSE [allowed |-> TRUE,
          remaining |-> apiKey.rateLimit.requestsPerDay - cached.requestsToday,
          resetTime |-> t + DayMs]

\* AuthService.checkRateLimit, given what cacheService.get returned
CheckRateLimit(apiKey, cached, t, offset) ==
    LET usage == IF cached = Null THEN ZeroUsage(t) ELSE cached IN
    IF usage.requestsToday >= apiKey.rateLimit.requestsPerDay
    THEN [allowed |-> FALSE, remaining |-> 0, resetTime |-> NextLocalMidnight(t, offset)]
    ELSE [allowed |-> TRUE,
          remaining |-> apiKey.rateLimit.requestsPerDay - usage.requestsToday,
          resetTime |-> t + DayMs]

\* the increments below without requestsToday++
IncrementedUsageNotToday(cached, t) ==
    LET usage == IF cached = Null THEN ZeroUsage(t) ELSE cached IN
    [usage EXCEPT !.totalRequests = @ + 1,
                  !.requestsThisMonth = @ + 1]

\* AuthService.recordUsage: the usage object after the three increments
IncrementedUsage(cached, t) ==
    LET usage == IF cached = Null THEN ZeroUsage(t) ELSE cached IN
    [usage EXCEPT !.totalRequests = @ + 1,
                  !.requestsToday = @ + 1,
                  !.requestsThisMonth = @ + 1]

\* AuthService.hasPermission
HasPermission(apiKey, permission) == permission \in apiKey.permissions

\* the test of validateApiKey: apiKey.expiresAt && new Date() > apiKey.expiresAt
KeyExpired(apiKey, t) == Truthy(apiKey.expiresAt) /\ DateGreaterThan(t, apiKey.expiresAt)

(***************************************************************************)
(* Requests.  A process is one HTTP request on a protected route           *)
(* (routes/index.ts: authenticate, requirePermission, checkApiKeyRateLimit,*)
(* recordApiKeyUsage, validation, handler) or one call of the key          *)
(* administration (revokeApiKey); pc is the await it is suspended at.      *)
(***************************************************************************)
Procs == {"r1", "r2"}
MaxOps == 4                         \* requests and admin calls started in one run
Routes == {"geocoding:read", "distance:read"}   \* permission a route requires
TzOffsets == {0, -(3 * 60 * 60 * 1000)}         \* UTC and UTC-3

IdleProc ==
    [pc |-> "idle", key |-> NoKey, route |-> "none", caller |-> "none",
     apiKey |-> Null,        \* validatedApiKey / req.apiKey / apiKey of revoke
     rl1 |-> Null,           \* rateLimitResult of authenticate
     rl2 |-> Null,           \* rateLimitResult of checkApiKeyRateLimit
     usage |-> Null,         \* usage of recordUsage
     uday |-> 0,             \* the UTC day in recordUsage's usageKey
     status |-> 0,           \* res.statusCode once answered
     ran |-> FALSE,          \* the route's handler ran
     revokedAtStart |-> FALSE] \* history: revokeApiKey(key) had returned true
                               \* when this request called validateApiKey

\* a process whose operation is over takes the next one
Free(p) == proc[p].pc \in {"idle", "done"}

Respond(rec, status) == [rec EXCEPT !.pc = "done", !.status = status]

\* authenticate up to its first await: extractApiKey, then the prefix test
\* of validateApiKey
StartRequestWithin(p, k, route, max) ==
    /\ Free(p)
    /\ ops < max
    /\ ops' = ops + 1
    /\ LET rec == [IdleProc EXCEPT !.key = k, !.route = route,
                                  !.revokedAtStart = (k \in revokedOk)] IN
       proc' = [proc EXCEPT ![p] =
                  IF k = NoKey THEN Respond(rec, 401)
                  ELSE IF ~StartsWith(k, API_KEY_PREFIX) THEN Respond(rec, 401)
                  ELSE [rec EXCEPT !.pc = "v_get"]]
    /\ UNCHANGED <<envVars, geoVars, store, ret, lag, tz, issued, recorded, revokedOk>>

StartRequest(p, k, route) == StartRequestWithin(p, k, route, MaxOps)

\* validateApiKey: cacheService.get and the status and expiry tests
ValidateGet(p) ==
    /\ proc[p].pc = "v_get"
    /\ LET r == CacheGet(store, ApiKeyCacheKey(proc[p].key), now, isConnected, storeUp)
           apiKey == r.value
       IN /\ store' = r.store
          /\ proc' = [proc EXCEPT ![p] =
                IF apiKey = Null THEN Respond(@, 401)
                ELSE IF apiKey.status # "active" THEN Respond(@, 401)
                ELSE IF KeyExpired(apiKey, now)
                     THEN [@ EXCEPT !.pc = "rv_get", !.caller = "validate"]
                     ELSE [@ EXCEPT !.pc = "v_set",
                                    !.apiKey = [apiKey EXCEPT !.lastUsedAt = DateOf(now)]]]
    /\ UNCHANGED <<envVars, geoVars, ret, lag, tz, issued, ops, recorded, revokedOk>>

\* validateApiKey: cacheService.set of the key with its new lastUsedAt
ValidateSet(p) ==
    /\ proc[p].pc = "v_set"
    /\ store' = CacheSet(store, ApiKeyCacheKey(proc[p].key), proc[p].apiKey, 0,
                         now, lag, isConnected, storeUp)
    /\ proc' = [proc EXCEPT ![p].pc = "c1"]
    /\ UNCHANGED <<envVars, geoVars, ret, lag, tz, issued, ops, recorded, revokedOk>>

\* authenticate: checkRateLimit(validatedApiKey)
AuthCheck(p) ==
    /\ proc[p].pc = "c1"
    /\ LET r == CacheGet(store, UsageKey(proc[p].apiKey.id, now), now, isConnected, storeUp)
           rl == CheckRateLimit(proc[p].apiKey, r.value, now, tz)
       IN /\ store' = r.store
          /\ proc' = [proc EXCEPT ![p] =
                IF ~rl.allowed THEN Respond([@ EXCEPT !.rl1 = rl], 429)
                ELSE [@ EXCEPT !.rl1 = rl, !.pc = "r_get", !.caller = "authenticate"]]
    /\ UNCHANGED <<envVars, geoVars, ret, lag, tz, issued, ops, recorded, revokedOk>>

\* recordUsage: cacheService.get of today's usage and the increments
RecordGet(p) ==
    /\ proc[p].pc = "r_get"
    /\ LET r == CacheGet(store, UsageKey(proc[p].apiKey.id, now), now, isConnected, storeUp)
       IN /\ store' = r.store
          /\ proc' = [proc EXCEPT ![p] =
                [@ EXCEPT !.usage = IncrementedUsage(r.value, now),
                          !.uday = UtcDay(now), !.pc = "r_setUsage"]]
    /\ UNCHANGED <<envVars, geoVars, ret, lag, tz, issued, ops, recorded, revokedOk>>

\* recordUsage: cacheService.set(usageKey, usage, 24 * 60 * 60)
RecordSetUsage(p) ==
    /\ proc[p].pc = "r_setUsage"
    /\ store' = CacheSet(store, <<"usage", proc[p].apiKey.id, proc[p].uday>>,
                         proc[p].usage, UsageTtl, now, lag, isConnected, storeUp)
    /\ proc' = [proc EXCEPT ![p].pc = "r_setKey"]
    /\ UNCHANGED <<envVars, geoVars, ret, lag, tz, issued, ops, recorded, revokedOk>>

\* requirePermission without the hasPermission test
RequirePermissionNoTest(rec) ==
    IF rec.apiKey = Null THEN Respond(rec, 401)
    ELSE [rec EXCEPT !.pc = "c2"]

\* AuthMiddleware.requirePermission(permission), after authenticate's next()
RequirePermission(rec) ==
    IF rec.apiKey = Null THEN Respond(rec, 401)
    ELSE IF ~HasPermission(rec.apiKey, rec.route) THEN Respond(rec, 403)
    ELSE [rec EXCEPT !.pc = "c2"]

\* recordUsage: apiKey.usage = usage and cacheService.set of the key; then
\* the caller goes on: authenticate to requirePermission, the finish
\* listener ends
RecordSetKey(p) ==
    /\ proc[p].pc = "r_setKey"
    /\ LET apiKey == [proc[p].apiKey EXCEPT !.usage = proc[p].usage]
           rec == [proc[p] EXCEPT !.apiKey = apiKey]
       IN /\ store' = CacheSet(store, ApiKeyCacheKey(apiKey.key), apiKey, 0,
                               now, lag, isConnected, storeUp)
          /\ proc' = [proc EXCEPT ![p] =
                IF rec.caller = "authenticate" THEN RequirePermission(rec)
                ELSE [rec EXCEPT !.pc = "done"]]
          /\ recorded' = [recorded EXCEPT ![<<"usage", apiKey.id, proc[p].uday>>] = @ + 1]
    /\ UNCHANGED <<envVars, geoVars, ret, lag, tz, issued, ops, revokedOk>>

\* ApiKeyRateLimit.checkApiKeyRateLimit, then recordApiKeyUsage registers
\* the finish listener and passes on
KeyRateCheckStep(p) ==
    /\ proc[p].pc = "c2"
    /\ LET r == CacheGet(store, UsageKey(proc[p].apiKey.id, now), now, isConnected, storeUp)
           rl == CheckRateLimit(proc[p].apiKey, r.value, now, tz)
       IN /\ store' = r.store
          /\ proc' = [proc EXCEPT ![p] =
                IF ~rl.allowed THEN Respond([@ EXCEPT !.rl2 = rl], 429)
                ELSE [@ EXCEPT !.rl2 = rl, !.pc = "handler"]]
    /\ UNCHANGED <<envVars, geoVars, lag, tz, issued, ops, recorded, revokedOk>>

KeyRateCheck(p) == KeyRateCheckStep(p) /\ UNCHANGED ret

\* the input validation and the route's handler answer; on 'finish' the
\* listener of recordApiKeyUsage calls recordUsage if statusCode < 500
HandlerOutcomes == {"invalid", "ok", "error"}
Handler(p, outcome) ==
    /\ proc[p].pc = "handler"
    /\ LET status == CASE outcome = "invalid" -> 400
                       [] outcome = "ok" -> 200
                       [] outcome = "error" -> 500
       IN proc' = [proc EXCEPT ![p] =
             [@ EXCEPT !.status = status, !.ran = (outcome # "invalid"),
                       !.caller = "finish",
                       !.pc = IF status < 500 THEN "r_get" ELSE "done"]]
    /\ UNCHANGED <<envVars, geoVars, store, ret, lag, tz, issued, ops, recorded, revokedOk>>

\* the revoke controller calls revokeApiKey(keyId)
StartRevoke(p, k) ==
    /\ Free(p)
    /\ ops < MaxOps
    /\ ops' = ops + 1
    /\ proc' = [proc EXCEPT ![p] = [IdleProc EXCEPT !.pc = "rv_get", !.key = k,
                                             !.caller = "controller"]]
    /\ UNCHANGED <<envVars, geoVars, store, ret, lag, tz, issued, recorded, revokedOk>>

\* what the caller of revokeApiKey does with its result
AfterRevoke(rec, success) ==
    IF rec.caller = "validate" THEN Respond(rec, 401)
    ELSE IF success THEN Respond(rec, 200) ELSE Respond(rec, 404)

\* the variant of the step below that returns false for a revoked key
RevokeGetOnce(p) ==
    /\ proc[p].pc = "rv_get"
    /\ LET r == CacheGet(store, ApiKeyCacheKey(proc[p].key), now, isConnected, storeUp)
           apiKey == r.value
       IN /\ store' = r.store
          /\ proc' = [proc EXCEPT ![p] =
                IF apiKey = Null THEN AfterRevoke(@, FALSE)
                ELSE IF apiKey.status = "revoked" THEN AfterRevoke(@, FALSE)
                ELSE [@ EXCEPT !.pc = "rv_set",
                               !.apiKey = [apiKey EXCEPT !.status = "revoked",
                                                         !.updatedAt = DateOf(now)]]]
    /\ UNCHANGED <<envVars, geoVars, ret, lag, tz, issued, ops, recorded, revokedOk>>

\* revokeApiKey: cacheService.get; absent returns false
RevokeGet(p) ==
    /\ proc[p].pc = "rv_get"
    /\ LET r == CacheGet(store, ApiKeyCacheKey(proc[p].key), now, isConnected, storeUp)
           apiKey == r.value
       IN /\ store' = r.store
          /\ proc' = [proc EXCEPT ![p] =
                IF apiKey = Null THEN AfterRevoke(@, FALSE)
                ELSE [@ EXCEPT !.pc = "rv_set",
                               !.apiKey = [apiKey EXCEPT !.status = "revoked",
                                                         !.updatedAt = DateOf(now)]]]
    /\ UNCHANGED <<envVars, geoVars, ret, lag, tz, issued, ops, recorded, revokedOk>>

\* revokeApiKey: cacheService.set, then return true
RevokeSet(p) ==
    /\ proc[p].pc = "rv_set"
    /\ store' = CacheSet(store, ApiKeyCacheKey(proc[p].key), proc[p].apiKey, 0,
                         now, lag, isConnected, storeUp)
    /\ proc' = [proc EXCEPT ![p] = AfterRevoke(@, TRUE)]
    /\ revokedOk' = revokedOk \cup {proc[p].key}
    /\ UNCHANGED <<envVars, geoVars, ret, lag, tz, issued, ops, recorded>>

\* createApiKey(request): one cacheService.set(cacheKey, apiKey, 0)
CreateApiKey(request) ==
    /\ ops < MaxOps
    /\ ops' = ops + 1
    /\ \E secret \in Secrets \ issued :
         /\ issued' = issued \cup {secret}
         /\ store' = CacheSet(store, ApiKeyCacheKey(secret), NewApiKey(secret, request, now),
                              0, now, lag, isConnected, storeUp)
    /\ UNCHANGED <<envVars, geoVars, ret, lag, tz, proc, recorded, revokedOk>>

Step(p) ==
    \/ \E k \in KeyInputs, route \in Routes : StartRequest(p, k, route)
    \/ ValidateGet(p)
    \/ ValidateSet(p)
    \/ AuthCheck(p)
    \/ RecordGet(p)
    \/ RecordSetUsage(p)
    \/ RecordSetKey(p)
    \/ KeyRateCheck(p)
    \/ \E outcome \in HandlerOutcomes : Handler(p, outcome)
    \/ \E k \in Secrets : StartRevoke(p, k)
    \/ RevokeGet(p)
    \/ RevokeSet(p)

(***************************************************************************)
(* GeocodingService (services/geocoding.service.ts).  Coordinates are in   *)
(* millionths of a degree, the six decimals of toFixed(6).                  *)
(***************************************************************************)
MaxGeoCalls == 3                    \* geocodeCep calls started in one run
MaxRetries == 3                     \* retryWithBackoff(op, 3, 1000)
BaseDelay == 1000

\* stateCoordinates of estimateCoordinatesFromBrazilianAddress
StateCoordinates ==
    ("AC" :> [latitude |-> -9023800, longitude |-> -70812000]) @@
    ("AL" :> [latitude |-> -9571300, longitude |-> -36781900]) @@
    ("AP" :> [latitude |-> 38900, longitude |-> -51096400]) @@
    ("AM" :> [latitude |-> -3119000, longitude |-> -60021700]) @@
    ("BA" :> [latitude |-> -12970400, longitude |-> -38512400]) @@
    ("CE" :> [latitude |-> -3730400, longitude |-> -38526700]) @@
    ("DF" :> [latitude |-> -15826700, longitude |-> -47921800]) @@
    ("ES" :> [latitude |-> -20315500, longitude |-> -40312800]) @@
    ("GO" :> [latitude |-> -16686900, longitude |-> -49264800]) @@
    ("MA" :> [latitude |-> -2538700, longitude |-> -44282500]) @@
    ("MT" :> [latitude |-> -15601400, longitude |-> -56097900]) @@
    ("MS" :> [latitude |-> -20469700, longitude |-> -54620100]) @@
    ("MG" :> [latitude |-> -19815700, longitude |-> -43954200]) @@
    ("PA" :> [latitude |-> -1455400, longitude |-> -48489800]) @@
    ("PB" :> [latitude |-> -7119500, longitude |-> -34845000]) @@
    ("PR" :> [latitude |-> -25428400, longitude |-> -49273300]) @@
    ("PE" :> [latitude |-> -8047600, longitude |-> -34877000]) @@
    ("PI" :> [latitude |-> -5089200, longitude |-> -42801900]) @@
    ("RJ" :> [latitude |-> -22906800, longitude |-> -43172900]) @@
    ("RN" :> [latitude |-> -5794500, longitude |-> -35211000]) @@
    ("RS" :> [latitude |-> -30034600, longitude |-> -51217700]) @@
    ("RO" :> [latitude |-> -8761900, longitude |-> -63903900]) @@
    ("RR" :> [latitude |-> 2823500, longitude |-> -60675800]) @@
    ("SC" :> [latitude |-> -27595400, longitude |-> -48548000]) @@
    ("SP" :> [latitude |-> -23550500, longitude |-> -46633300]) @@
    ("SE" :> [latitude |-> -10947200, longitude |-> -37073100]) @@
    ("TO" :> [latitude |-> -10175300, longitude |-> -48298200])

\* "Default to center of Brazil if state not found"
BrazilCenter == [latitude |-> -14235000, longitude |-> -51925300]

\* (Math.random() - 0.5) * 0.1 for latitude and longitude, rounded by toFixed(6)
Variations == {<<0, 0>>, <<-50000, 49999>>}

\* estimateCoordinatesFromBrazilianAddress
EstimateCoordinates(address, variation) ==
    IF address.uf \in DOMAIN StateCoordinates
    THEN [latitude |-> StateCoordinates[address.uf].latitude + variation[1],
          longitude |-> StateCoordinates[address.uf].longitude + variation[2]]
    ELSE BrazilCenter

\* what ViaCEP answers to one GET /<cep>/json/: a body with an address, a
\* body with an address outside the 27 states, a body with the erro marker,
\* the JSON body null, HTTP 404, or no usable answer (transport error,
\* timeout, HTTP 5xx)
ViaCepBodies == {"address", "addressNoState", "erro", "nullBody"}
ViaCepAnswers == ViaCepBodies \cup {"status404", "failure"}

\* response.data of a 2xx answer
ViaCepData(cep, answer) ==
    CASE answer = "address" -> [cep |-> cep, localidade |-> "Sao Paulo", uf |-> "SP", erro |-> FALSE]
      [] answer = "addressNoState" -> [cep |-> cep, localidade |-> "Sao Paulo", uf |-> "EX", erro |-> FALSE]
      [] answer = "erro" -> [cep |-> cep, localidade |-> "", uf |-> "", erro |-> TRUE]
      [] answer = "nullBody" -> Null

\* the error axios rejects with: a non-2xx status or no response at all
ViaCepError(answer) ==
    [isAxiosError |-> TRUE, status |-> IF answer = "status404" THEN 404 ELSE 0, message |-> answer]
PlainError(message) == [isAxiosError |-> FALSE, status |-> 0, message |-> message]
\* data.erro on a null body
TypeError == PlainError("TypeError")

\* getAddressFromViaCep: the Address built from response.data
ViaCepAddress(data) == [cep |-> data.cep, localidade |-> data.localidade, uf |-> data.uf]

\* what OpenCage answers to one GET /json: a result, an empty results list,
\* a body without a results list, or an error (transport error, timeout,
\* HTTP error status)
OpenCageAnswers == {"result", "empty", "malformed", "failure"}
OpenCageCoordinates == [latitude |-> -23561400, longitude |-> -46655900]

\* the error getCoordinatesFromOpenCage throws on an answer without a result
OpenCageError(answer) ==
    CASE answer = "empty" -> PlainError("No results found from OpenCage")
      [] answer = "malformed" -> TypeError
      [] answer = "failure" -> [isAxiosError |-> TRUE, status |-> 0, message |-> answer]

\* the variant of the catch below that lets errors other than axios's through
CatchesAxiosOnly(error) == error.isAxiosError

\* getCoordinatesFromAddress: catch (error) { logger.warn } around OpenCage
CatchesOpenCage(error) == TRUE

\* the variant of the test below that queries OpenCage without a key
UsesOpenCageAlways(apiKey) == TRUE

\* getCoordinatesFromAddress: if (config.apiKeys?.opencage)
UsesOpenCage(apiKey) == apiKey

IdleGeo ==
    [pc |-> "idle", cep |-> <<>>, cleanCep |-> <<>>,
     attempt |-> 0,          \* attempt of retryWithBackoff
     wakeAt |-> 0,           \* when the delay before the next attempt ends
     vcalls |-> 0,           \* calls made to ViaCEP
     gcalls |-> 0,           \* calls made to OpenCage
     address |-> Null,
     result |-> Null,        \* the GeocodingResult returned
     error |-> "",           \* the message of the Error thrown
     hit |-> FALSE]          \* returned the cached result

GeoFree(p) == geo[p].pc \in {"idle", "done"}

GeoThrow(rec, message) ==
    [IdleGeo EXCEPT !.pc = "done", !.cep = rec.cep, !.vcalls = rec.vcalls, !.error = message]

\* the skip-the-cache variant of the test below
GeocodeNeverHit(cachedResult) == FALSE

\* geocodeCep: if (cachedResult)
GeocodeHit(cachedResult) == cachedResult # Null

\* geocodeCep up to its first await on a provider: validateCepOrThrow,
\* formatCep, cacheService.get and the return of a cached result
GeoCall(p, cep) ==
    /\ GeoFree(p)
    /\ ops < MaxGeoCalls
    /\ ops' = ops + 1
    /\ LET rec == [IdleGeo EXCEPT !.cep = cep]
           message == ValidateCepOrThrow(cep)
           cleanCep == FormatCep(cep)
       IN IF message # ""
          THEN /\ geo' = [geo EXCEPT ![p] = GeoThrow(rec, message)]
               /\ store' = store
          ELSE LET r == CacheGet(store, GenerateKey("geocoding", cleanCep), now,
                                 isConnected, storeUp)
               IN /\ store' = r.store
                  /\ geo' = [geo EXCEPT ![p] =
                        IF GeocodeHit(r.value)
                        THEN [rec EXCEPT !.cleanCep = cleanCep, !.pc = "done",
                                         !.result = r.value, !.hit = TRUE]
                        ELSE [rec EXCEPT !.cleanCep = cleanCep, !.pc = "viacep"]]
    /\ UNCHANGED <<envVars, lag, tz, proc, issued, recorded, revokedOk, opencage, geoLog>>

\* a caller of the service calls geocodeCep(cep)
GeoStart(p, cep) == GeoCall(p, cep) /\ UNCHANGED ret

\* geocodeCep from the coordinates on: build the result, cacheService.set
\* (cacheKey, result) with the default ttl, return the result
GeoReturn(p, rec, coordinates) ==
    LET result == [coordinates |-> coordinates, address |-> rec.address]
        cacheKey == GenerateKey("geocoding", rec.cleanCep)
    IN /\ store' = CacheSet(store, cacheKey, result, 0, now, lag, isConnected, storeUp)
       /\ geo' = [geo EXCEPT ![p] = [IdleGeo EXCEPT !.pc = "done", !.cep = rec.cep,
                                                   !.vcalls = rec.vcalls, !.gcalls = rec.gcalls,
                                                   !.result = result]]
       /\ geoLog' = IF isConnected /\ storeUp
                    THEN Append(geoLog, [cleanCep |-> rec.cleanCep, result |-> result,
                                         at |-> now])
                    ELSE geoLog

\* the variant of the catch block below that caches the failure
GeoCatchCaching(p, rec, message) ==
    /\ store' = CacheSet(store, GenerateKey("geocoding", rec.cleanCep), [error |-> message],
                         0, now, lag, isConnected, storeUp)
    /\ geo' = [geo EXCEPT ![p] = GeoThrow(rec, message)]
    /\ geoLog' = geoLog

\* geocodeCep: catch (error) { logger.error; throw error }
GeoCatch(p, rec, message) ==
    /\ geo' = [geo EXCEPT ![p] = GeoThrow(rec, message)]
    /\ UNCHANGED <<store, geoLog>>

\* the variant of the test below that allows one more attempt
RetriesExhaustedLate(attempt) == attempt = MaxRetries + 1

\* retryWithBackoff: if (attempt === maxRetries) throw lastError
RetriesExhausted(attempt) == attempt = MaxRetries

\* getAddressFromViaCep: if (data.erro); reading a property of null throws
ViaCepErro(data) == data.erro

\* getAddressFromViaCep: the catch block, from the error caught to the
\* message of the error thrown
ViaCepRethrow(error) ==
    IF error.isAxiosError
    THEN IF error.status = 404 THEN "CEP_NOT_FOUND" ELSE "SERVICE_UNAVAILABLE"
    ELSE error.message

\* getAddressFromViaCep: one answer of ViaCEP inside retryWithBackoff; with
\* an address and no OpenCage key, the estimate and the rest of geocodeCep
ViaCepAnswer(p, answer, variation) ==
    /\ geo[p].pc = "viacep"
    /\ LET rec == [geo[p] EXCEPT !.vcalls = @ + 1] IN
       IF answer \in ViaCepBodies
       THEN LET data == ViaCepData(rec.cleanCep, answer) IN
            IF data = Null
            THEN GeoCatch(p, rec, ViaCepRethrow(TypeError))
            ELSE IF ViaCepErro(data)
            THEN GeoCatch(p, rec, ViaCepRethrow(PlainError("CEP_NOT_FOUND")))
            ELSE LET found == [rec EXCEPT !.address = ViaCepAddress(data)] IN
                 IF UsesOpenCage(opencage)
                 THEN /\ geo' = [geo EXCEPT ![p] = [found EXCEPT !.pc = "opencage"]]
                      /\ UNCHANGED <<store, geoLog>>
                 ELSE GeoReturn(p, found, EstimateCoordinates(found.address, variation))
       ELSE IF RetriesExhausted(rec.attempt)
            THEN GeoCatch(p, rec, ViaCepRethrow(ViaCepError(answer)))
            ELSE /\ geo' = [geo EXCEPT ![p] =
                        [rec EXCEPT !.pc = "delay",
                                    !.wakeAt = now + BaseDelay * (2 ^ rec.attempt)]]
                 /\ UNCHANGED <<store, geoLog>>
    /\ UNCHANGED <<envVars, authVars, ret, opencage>>

\* retryWithBackoff: delay(delayMs) has ended and the next attempt starts
RetryDelay(p) ==
    /\ geo[p].pc = "delay"
    /\ now >= geo[p].wakeAt
    /\ geo' = [geo EXCEPT ![p] = [@ EXCEPT !.pc = "viacep", !.attempt = @ + 1]]
    /\ UNCHANGED <<envVars, store, ret, authVars, opencage, geoLog>>

\* getCoordinatesFromAddress with an OpenCage key: the answer of OpenCage,
\* the estimate if it failed, and the rest of geocodeCep
OpenCageAnswer(p, answer, variation) ==
    /\ geo[p].pc = "opencage"
    /\ LET rec == [geo[p] EXCEPT !.gcalls = @ + 1] IN
       IF answer = "result"
       THEN GeoReturn(p, rec, OpenCageCoordinates)
       ELSE IF CatchesOpenCage(OpenCageError(answer))
       THEN GeoReturn(p, rec, EstimateCoordinates(rec.address, variation))
       ELSE GeoCatch(p, rec, OpenCageError(answer).message)
    /\ UNCHANGED <<envVars, authVars, ret, opencage>>

GeoStep(p) ==
    \/ \E cep \in CepInputs : GeoStart(p, cep)
    \/ \E answer \in ViaCepAnswers, variation \in Variations : ViaCepAnswer(p, answer, variation)
    \/ RetryDelay(p)
    \/ \E answer \in OpenCageAnswers, variation \in Variations : OpenCageAnswer(p, answer, variation)

InitBase ==
    /\ now = 0
    /\ ticks = 0
    /\ isConnected = TRUE
    /\ storeUp = TRUE
    /\ store = [k \in StoreKeys |-> NoEntry]
    /\ proc = [p \in Procs |-> IdleProc]
    /\ issued = {}
    /\ ops = 0
    /\ recorded = [k \in UsageKeys |-> 0]
    /\ revokedOk = {}
    /\ geo = [p \in Procs |-> IdleGeo]
    /\ geoLog = <<>>

\* the host's time zone is UTC
InitCommon == InitBase /\ ret = NoRet /\ tz = 0

\* no OPENCAGE_API_KEY in the environment; Redis takes a command at the
\* instant the client sends it
Init ==
    /\ InitCommon
    /\ lag = 0
    /\ opencage = FALSE

\* one request at a time while the clock moves; the store stays available
Next ==
    \/ Step("r1")
    \/ \E request \in CreateRequests : CreateApiKey(request)
    \/ Tick(HalfDayMs)

Spec == Init /\ [][Next]_vars

\* the same on a host in any of the time zones
InitZone ==
    /\ InitBase
    /\ ret = NoRet
    /\ tz \in TzOffsets
    /\ lag = 0
    /\ opencage = FALSE

SpecZone == InitZone /\ [][Next]_vars

\* one request at a time while the Redis connection comes and goes
NextOutage ==
    \/ Step("r1")
    \/ \E request \in CreateRequests : CreateApiKey(request)
    \/ Env

SpecOutage == Init /\ [][NextOutage]_vars

\* concurrent requests and admin calls on an available store
NextRace ==
    \/ \E p \in Procs : Step(p)
    \/ \E request \in CreateRequests : CreateApiKey(request)

SpecRace == Init /\ [][NextRace]_vars

(***************************************************************************)
(* SpecBurst: two clients at a time send requests with one basic key to a  *)
(* route whose upstream fails; ret.value counts the requests that reached  *)
(* the route's handler                                                     *)
(***************************************************************************)
MaxBurst == 6                       \* the create call and the requests of a run

BasicRequest == CHOOSE request \in CreateRequests : request.plan = "basic"

NoneAdmitted == [NoRet EXCEPT !.op = "admitted", !.value = 0]

BurstRequest(p) ==
    \E k \in issued : StartRequestWithin(p, k, "geocoding:read", MaxBurst)

\* checkApiKeyRateLimit, counting the request when it passes on
CountedKeyRateCheck(p) ==
    /\ KeyRateCheckStep(p)
    /\ ret' = IF proc'[p].pc = "handler" THEN [ret EXCEPT !.value = @ + 1] ELSE ret

InitBurst ==
    /\ InitBase
    /\ ret = NoneAdmitted
    /\ tz = 0
    /\ lag = 0
    /\ opencage = FALSE

NextBurst ==
    \/ CreateApiKey(BasicRequest)
    \/ \E p \in Procs :
         \/ BurstRequest(p)
         \/ ValidateGet(p)
         \/ ValidateSet(p)
         \/ AuthCheck(p)
         \/ RecordGet(p)
         \/ RecordSetUsage(p)
         \/ RecordSetKey(p)
         \/ CountedKeyRateCheck(p)
         \/ Handler(p, "error")

SpecBurst == InitBurst /\ [][NextBurst]_vars

(***************************************************************************)
(* SpecCache: a caller using CacheService directly                         *)
(***************************************************************************)
Payloads == {[coordinates |-> "p1"], [coordinates |-> "p2"]}
HalfDaySeconds == HalfDayMs \div MsPerSecond
TtlInputs == {0, HalfDaySeconds}
CacheKeys == GeoKeys

DoGet(k) ==
    LET r == CacheGet(store, k, now, isConnected, storeUp) IN
    /\ store' = r.store
    /\ ret' = [op |-> "get", key |-> k, value |-> r.value, path |-> r.path]
    /\ UNCHANGED <<envVars, authVars, geoVars>>

DoSet(k, v, ttl) ==
    /\ store' = CacheSet(store, k, v, ttl, now, lag, isConnected, storeUp)
    /\ ret' = [op |-> "set", key |-> k, value |-> Null, path |-> "none"]
    /\ UNCHANGED <<envVars, authVars, geoVars>>

DoDelete(k) ==
    /\ store' = CacheDelete(store, k, isConnected, storeUp)
    /\ ret' = [op |-> "delete", key |-> k, value |-> Null, path |-> "none"]
    /\ UNCHANGED <<envVars, authVars, geoVars>>

\* Redis takes a SETEX up to MaxLag ms after the client's Date.now()
InitCache ==
    /\ InitCommon
    /\ lag \in 0..MaxLag
    /\ opencage = FALSE

NextCache ==
    \/ \E k \in CacheKeys : DoGet(k)
    \/ \E k \in CacheKeys, v \in Payloads, ttl \in TtlInputs : DoSet(k, v, ttl)
    \/ \E k \in CacheKeys : DoDelete(k)
    \/ \E d \in TickSteps : Tick(d)
    \/ Env

SpecCache == InitCache /\ [][NextCache]_vars

(***************************************************************************)
(* SpecGeo: concurrent geocodeCep calls without an OpenCage key, while the *)
(* clock moves and the Redis connection comes and goes                     *)
(***************************************************************************)
NextGeo ==
    \/ \E p \in Procs, cep \in CepInputs : GeoStart(p, cep)
    \/ \E p \in Procs, answer \in ViaCepAnswers, variation \in Variations :
         ViaCepAnswer(p, answer, variation)
    \/ \E p \in Procs : RetryDelay(p)
    \/ Tick(HalfDayMs)
    \/ Env

SpecGeo == Init /\ [][NextGeo]_vars

\* one geocodeCep call at a time, with or without an OpenCage key
InitGeocoder ==
    /\ InitCommon
    /\ lag = 0
    /\ opencage \in BOOLEAN

NextGeocoder ==
    \/ GeoStep("r1")
    \/ Tick(HalfDayMs)
    \/ Env

SpecGeocoder == InitGeocoder /\ [][NextGeocoder]_vars

\* retryWithBackoff: await delay(delayMs) and the next turn of the loop; the
\* timer fires once the clock has reached the end of the delay
RetryAfterDelay(p) ==
    /\ geo[p].pc = "delay"
    /\ now' = IF now < geo[p].wakeAt THEN geo[p].wakeAt ELSE now
    /\ geo' = [geo EXCEPT ![p] = [@ EXCEPT !.pc = "viacep", !.attempt = @ + 1]]
    /\ UNCHANGED <<ticks, isConnected, storeUp, store, ret, authVars, opencage, geoLog>>

\* one geocodeCep call at a time with its timers; every request to ViaCEP
\* is answered or times out (axios timeout: 5000) and every timer fires
NextRetry ==
    \/ \E cep \in CepInputs : GeoStart("r1", cep)
    \/ \E answer \in ViaCepAnswers, variation \in Variations : ViaCepAnswer("r1", answer, variation)
    \/ RetryAfterDelay("r1")
    \/ Env

SpecRetry ==
    /\ Init
    /\ [][NextRetry]_vars
    /\ WF_vars(\E answer \in ViaCepAnswers, variation \in Variations :
                    ViaCepAnswer("r1", answer, variation))
    /\ WF_vars(RetryAfterDelay("r1"))

(***************************************************************************)
(* SpecCep: one string as the cep of service calls and of requests to      *)
(* GET /geocoding/cep/:cep                                                 *)
(***************************************************************************)
ErrorCodes ==
    {"INVALID_CEP", "CEP_NOT_FOUND", "INVALID_COORDINATES", "SERVICE_UNAVAILABLE",
     "RATE_LIMIT_EXCEEDED", "INTERNAL_SERVER_ERROR", "VALIDATION_ERROR", "CACHE_ERROR",
     "UNAUTHORIZED", "FORBIDDEN", "INVALID_API_KEY", "API_KEY_EXPIRED", "INTERNAL_ERROR"}

\* getStatusCodeForErrorCode
StatusCodeForErrorCode(errorCode) ==
    CASE errorCode \in {"INVALID_CEP", "INVALID_COORDINATES", "VALIDATION_ERROR"} -> 400
      [] errorCode \in {"UNAUTHORIZED", "INVALID_API_KEY", "API_KEY_EXPIRED"} -> 401
      [] errorCode = "FORBIDDEN" -> 403
      [] errorCode = "CEP_NOT_FOUND" -> 404
      [] errorCode = "RATE_LIMIT_EXCEEDED" -> 429
      [] errorCode = "SERVICE_UNAVAILABLE" -> 503
      [] OTHER -> 500

\* the Error object of a message thrown by the service
ThrownError(message) ==
    [name |-> IF message = TypeError.message THEN "TypeError" ELSE "Error", message |-> message]

\* errorHandler: the status and the error code of the response
ErrorHandler(error) ==
    IF error.message \in ErrorCodes
    THEN [status |-> StatusCodeForErrorCode(error.message), code |-> error.message]
    ELSE IF error.name = "ValidationError"
    THEN [status |-> 400, code |-> "VALIDATION_ERROR"]
    ELSE [status |-> 500, code |-> "INTERNAL_SERVER_ERROR"]

Input(cep) == [op |-> "input", key |-> cep, value |-> Null, path |-> "none"]

\* a caller of the service calls geocodeCep with the string
ServiceCall(p) ==
    /\ ret.op = "input"
    /\ GeoStart(p, ret.key)

\* GET /geocoding/cep/:cep up to the first await of the service:
\* validateCepParam, then the controller's formatCep and geocodeCep
GeocodeRequest(p) ==
    /\ ret.op = "input"
    /\ IF ~CepSchema(ret.key)
       THEN /\ ret' = [ret EXCEPT !.op = "response", !.value = 400,
                                  !.path = "VALIDATION_ERROR"]
            /\ UNCHANGED <<envVars, authVars, geoVars, store>>
       ELSE /\ GeoCall(p, FormatCep(ret.key))
            /\ ret' = [ret EXCEPT !.op = "request"]

\* the controller's res.json(createSuccessResponse(result)), or
\* asyncHandler's catch(next) and errorHandler
GeocodeResponse(p) ==
    /\ ret.op = "request"
    /\ geo[p].pc = "done"
    /\ ret' = IF geo[p].error = ""
              THEN [ret EXCEPT !.op = "response", !.value = 200, !.path = ""]
              ELSE LET r == ErrorHandler(ThrownError(geo[p].error))
                   IN [ret EXCEPT !.op = "response", !.value = r.status, !.path = r.code]
    /\ UNCHANGED <<envVars, authVars, geoVars, store>>

InitCep ==
    /\ InitBase
    /\ ret \in {Input(cep) : cep \in CepStrings(MaxInserted)}
    /\ tz = 0
    /\ lag = 0
    /\ opencage = FALSE

NextCep ==
    \/ ServiceCall("r1")
    \/ GeocodeRequest("r2")
    \/ \E answer \in ViaCepAnswers, variation \in Variations : ViaCepAnswer("r2", answer, variation)
    \/ GeocodeResponse("r2")

SpecCep == InitCep /\ [][NextCep]_vars

(***************************************************************************)
(* calculateDistance, in fixed point: angles in thousandths of a radian,   *)
(* sines and cosines in thousandths, distances in metres.  Zero is exact   *)
(* here as it is in the doubles of the code: x - x, 0 * k, sin 0, sqrt 0   *)
(* and atan2(0, 1) are 0.                                                  *)
(***************************************************************************)
EarthRadius == 6371
PiMilli == 3142

Latitudes == {-90, -45, 0, 30, 90}
Longitudes == {-180, -60, 0, 45, 180}
CoordinateInputs == [latitude : Latitudes, longitude : Longitudes]

\* degrees * (Math.PI / 180)
ToRadians(degrees) ==
    IF degrees < 0 THEN -((-degrees * PiMilli) \div 180)
    ELSE (degrees * PiMilli) \div 180

\* Math.sin on [0, pi], by 16x(pi - x) / (5 pi^2 - 4x(pi - x))
SinUpper(x) ==
    LET q == x * (PiMilli - x)
    IN (160 * q) \div ((5 * PiMilli * PiMilli - 4 * q) \div 100)

\* Math.sin on [-pi, pi]
Sin(x) == IF x < 0 THEN -SinUpper(-x) ELSE SinUpper(x)

\* Math.cos on [-pi/2, pi/2]
Cos(x) == SinUpper(PiMilli \div 2 - x)

\* Math.sqrt of thousandths, in thousandths
Sqrt(v) == CHOOSE r \in 0..1000 : r * r <= v * 1000 /\ v * 1000 < (r + 1) * (r + 1)

\* Math.atan on [0, 1], by z(pi/4 + 0.273(1 - z))
AtanUnit(z) == (z * (PiMilli \div 4 + (273 * (1000 - z)) \div 1000)) \div 1000

\* Math.atan2 for y >= 0, x >= 0 not both 0
Atan2(y, x) ==
    IF y <= x THEN AtanUnit((y * 1000) \div x)
    ELSE PiMilli \div 2 - AtanUnit((x * 1000) \div y)

\* Math.round(distance * 100) / 100, in hundredths of a kilometre
RoundTo2(metres) == (metres + 5) \div 10

\* the variant of the difference below that adds
DeltaSum(from, to) == to + from

\* destination.latitude - origin.latitude, and the same for longitudes
Delta(from, to) == to - from

\* the haversine term a
HaversineA(origin, destination) ==
    LET lat1Rad == ToRadians(origin.latitude)
        lat2Rad == ToRadians(destination.latitude)
        deltaLatRad == ToRadians(Delta(origin.latitude, destination.latitude))
        deltaLngRad == ToRadians(Delta(origin.longitude, destination.longitude))
        sinLat == Sin(deltaLatRad \div 2)
        sinLng == Sin(deltaLngRad \div 2)
        a == (sinLat * sinLat) \div 1000
             + (((Cos(lat1Rad) * Cos(lat2Rad)) \div 1000)
                * ((sinLng * sinLng) \div 1000)) \div 1000
    IN IF a > 1000 THEN 1000 ELSE a

\* calculateDistance, in hundredths of a kilometre
CalculateDistance(origin, destination) ==
    LET a == HaversineA(origin, destination)
        c == 2 * Atan2(Sqrt(a), Sqrt(1000 - a))
        distance == EarthRadius * c
    IN RoundTo2(distance)

DistanceInput(origin, destination) ==
    [op |-> "distanceInput", origin |-> origin, destination |-> destination]

\* one call of calculateDistance on the pair drawn
DistanceCall ==
    /\ ret.op = "distanceInput"
    /\ ret' = [op |-> "distance", origin |-> ret.origin, destination |-> ret.destination,
               value |-> CalculateDistance(ret.origin, ret.destination)]
    /\ UNCHANGED <<envVars, authVars, geoVars, store>>

InitDistance ==
    /\ InitBase
    /\ ret \in {DistanceInput(o, d) : o \in CoordinateInputs, d \in CoordinateInputs}
    /\ tz = 0
    /\ lag = 0
    /\ opencage = FALSE

NextDistance == DistanceCall

SpecDistance == InitDistance /\ [][NextDistance]_vars

(***************************************************************************)
(* Properties                                                              *)
(***************************************************************************)
Available == isConnected /\ storeUp

\* the rateLimitResult a check step of p has just produced
CheckOf(p) == IF proc[p].pc = "c1" THEN proc'[p].rl1 ELSE proc'[p].rl2
CheckReturns(p) == proc[p].pc \in {"c1", "c2"} /\ proc'[p].pc # proc[p].pc

\* C1: with the store available and calls that do not overlap, checkRateLimit
\* returns allowed exactly when fewer than requestsPerDay recordUsage calls
\* have completed for the key on that UTC day; a denial has remaining = 0.
C1_QuotaDecision ==
    [][\A p \in Procs :
         CheckReturns(p) =>
           LET n == recorded[UsageKey(proc[p].apiKey.id, now)]
               limit == proc[p].apiKey.rateLimit.requestsPerDay
           IN /\ CheckOf(p).allowed <=> (n < limit)
              /\ ~CheckOf(p).allowed => CheckOf(p).remaining = 0]_vars

\* a request denied by the first check once the whole quota was recorded
C1_Witness ==
    \E p \in Procs :
      /\ proc[p].pc = "done" /\ proc[p].status = 429
      /\ proc[p].rl1 # Null /\ ~proc[p].rl1.allowed /\ proc[p].rl1.remaining = 0
      /\ recorded[UsageKey(proc[p].apiKey.id, now)] = proc[p].apiKey.rateLimit.requestsPerDay

\* C2: once revokeApiKey(secret) has returned true, no validateApiKey(secret)
\* call that starts afterwards returns the key.
C2_RevokedStaysInvalid ==
    \A p \in Procs : ~(proc[p].revokedAtStart /\ proc[p].pc = "c1")

\* C3: validateApiKey never returns a stored key whose expiresAt is earlier
\* than the time of the call (lastUsedAt is that time).
C3_ExpiredKeyRejected ==
    \A p \in Procs :
      proc[p].pc = "v_set" =>
        ~(Truthy(proc[p].apiKey.expiresAt)
          /\ proc[p].apiKey.lastUsedAt.t > proc[p].apiKey.expiresAt.t)

\* C4: the record of every issued key stays readable under apikey:<secret>.
C4_KeyRecordPersists ==
    \A secret \in issued :
      CacheGet(store, ApiKeyCacheKey(secret), now, isConnected, storeUp).value # Null

\* C5: the handler of a protected route runs only for a request whose key
\* validateApiKey returned, whose two rate-limit checks returned allowed and
\* whose key holds the route's permission; a request that fails one of these
\* is answered 401, 429 or 403 and its handler does not run.
IsRequest(rec) == rec.pc # "idle" /\ rec.caller # "controller"
Admitted(rec) ==
    /\ rec.apiKey # Null
    /\ rec.rl1 # Null /\ rec.rl1.allowed
    /\ rec.rl2 # Null /\ rec.rl2.allowed
    /\ HasPermission(rec.apiKey, rec.route)
PastGate(rec) == rec.pc = "handler" \/ rec.status \in {200, 400, 500}
StoredKeyAcceptable(secret, route) ==
    LET e == store[ApiKeyCacheKey(secret)] IN
    /\ secret \in issued
    /\ e.present /\ now <= e.expireAt /\ ~EntryExpired(e, now)
    /\ e.data.status = "active"
    /\ ~(Truthy(e.data.expiresAt) /\ now > e.data.expiresAt.t)
    /\ route \in e.data.permissions
C6_OutageDoesNotReject ==
    [][\A p \in Procs :
         (/\ proc[p].pc = "v_get"
          /\ ~Available
          /\ StoredKeyAcceptable(proc[p].key, proc[p].route))
         => proc'[p].status # 401]_vars

\* C7: a rate-limit check made while the store is unavailable returns
\* allowed = true.
C7_CheckFailsOpen ==
    [][\A p \in Procs :
         (CheckReturns(p) /\ ~Available) => CheckOf(p).allowed]_vars

\* a request let through by the first check although the stored usage record
\* of its key holds the whole quota: the check could not read it
C7_Witness ==
    \E p \in Procs :
      LET e == store[UsageKey(proc[p].apiKey.id, now)] IN
      /\ proc[p].pc = "r_get" /\ proc[p].caller = "authenticate"
      /\ proc[p].rl1.allowed
      /\ ~Available
      /\ e.present /\ e.data.requestsToday >= proc[p].apiKey.rateLimit.requestsPerDay

\* C8, as stated: with the store available, get returns the data exactly when
\* an envelope exists and now < timestamp + ttl * 1000, and an envelope for
\* which that fails is gone from the store after the get.
C8_FreshBeforeDeadline ==
    [][\A k \in CacheKeys :
         (DoGet(k) /\ Available) =>
           LET e == RedisGet(store, k, now)
               fresh == e.present /\ now < e.timestamp + e.ttl * MsPerSecond
           IN /\ (ret'.value # Null) <=> fresh
              /\ (e.present /\ ~fresh) => ~RedisGet(store', k, now).present]_vars

\* C8, amended: the same with now <= timestamp + ttl * 1000.
C8_FreshThroughDeadline ==
    [][\A k \in CacheKeys :
         (DoGet(k) /\ Available) =>
           LET e == RedisGet(store, k, now)
               fresh == e.present /\ now <= e.timestamp + e.ttl * MsPerSecond
           IN /\ (ret'.value # Null) <=> fresh
              /\ (ret'.value # Null) => ret'.value = e.data
              /\ (e.present /\ ~fresh) => ~RedisGet(store', k, now).present]_vars

\* a get that found an envelope past its deadline and deleted it
C8_Witness ==
    /\ ret.op = "get" /\ ret.path = "expired"
    /\ Available
    /\ ~store[ret.key].present

\* C9: while the store is disconnected or its commands throw, get returns
\* absent and set and delete leave the store as it was.
C9_OutageNoEffect ==
    [][(/\ ~Available
        /\ \E k \in CacheKeys :
             \/ DoGet(k)
             \/ DoDelete(k)
             \/ \E v \in Payloads, ttl \in TtlInputs : DoSet(k, v, ttl))
       => /\ store' = store
          /\ ret'.op = "get" => ret'.value = Null]_vars

\* a get that returned absent for an entry Redis holds, because the command threw
C9_Witness ==
    /\ ret.op = "get" /\ ret.path \in {"error", "disconnected"} /\ ret.value = Null
    /\ ~Available
    /\ store[ret.key].present /\ ~EntryExpired(store[ret.key], now)

\* the result geocodeCep cached last for a code, if any
LastCached(cleanCep) ==
    LET idx == {i \in 1..Len(geoLog) : geoLog[i].cleanCep = cleanCep} IN
    IF idx = {} THEN Null
    ELSE geoLog[CHOOSE i \in idx : \A j \in idx : j <= i]

\* a geocodeCep call that starts now, on a valid input, with the store available
StartsAvailable(p, cep) == GeoStart(p, cep) /\ IsValidCep(cep) /\ Available
Live(e) == now < e.at + RedisTtl * MsPerSecond
ServedFromCache(rec, result) ==
    /\ rec.pc = "done" /\ rec.error = ""
    /\ rec.result = result
    /\ rec.vcalls = 0 /\ rec.gcalls = 0

\* C10, as stated: once a geocodeCep call has returned r and cached it, every
\* call that starts later on an input with the same 8 digits, before r's ttl
\* has elapsed and with the store available, returns r without calling ViaCEP
\* or OpenCage.
C10_LaterCallsReturnFirst ==
    [][\A p \in Procs, cep \in CepInputs :
         StartsAvailable(p, cep) =>
           \A i \in 1..Len(geoLog) :
             (geoLog[i].cleanCep = FormatCep(cep) /\ Live(geoLog[i]))
               => ServedFromCache(geo'[p], geoLog[i].result)]_vars

\* C10, amended: such a call returns the result cached last for the code,
\* which is r unless another call that missed has cached its own since, and
\* calls neither ViaCEP nor OpenCage.
C10_LaterCallsReturnLastCached ==
    [][\A p \in Procs, cep \in CepInputs :
         StartsAvailable(p, cep) =>
           LET last == LastCached(FormatCep(cep)) IN
           (last # Null /\ Live(last)) => ServedFromCache(geo'[p], last.result)]_vars

\* a call on the hyphenated input served the result an earlier call cached
C10_Witness ==
    \E p \in Procs :
      /\ geo[p].hit /\ geo[p].pc = "done"
      /\ "-" \in {geo[p].cep[i] : i \in 1..Len(geo[p].cep)}
      /\ geo[p].vcalls = 0 /\ geo[p].gcalls = 0
      /\ LastCached(geo[p].cleanCep) # Null
      /\ geo[p].result = LastCached(geo[p].cleanCep).result
      /\ Available

\* the address lookup of the call of p ends with this step in an error
LookupFails(p) ==
    /\ geo[p].pc = "viacep"
    /\ geo'[p].pc = "done"
    /\ geo'[p].error \in {"CEP_NOT_FOUND", "SERVICE_UNAVAILABLE"}

\* the address lookup of the call of p goes to its next attempt
LookupRetries(p) == geo[p].pc = "viacep" /\ geo'[p].pc = "delay"

WellFormedCep(cep) ==
    \/ Len(cep) = 8 /\ \A i \in 1..8 : cep[i] \in Digits
    \/ /\ Len(cep) = 9
       /\ \A i \in 1..5 : cep[i] \in Digits
       /\ cep[6] = "-"
       /\ \A i \in 7..9 : cep[i] \in Digits

\* all the digits of the string are the same one
RepeatedDigit(cep) ==
    LET digits == FormatCep(cep) IN \A i \in 1..Len(digits) : digits[i] = digits[1]

\* the messages validateCepOrThrow throws
InvalidCepMessages == {"CEP is required", "CEP format is invalid. CEP must contain 8 digits"}

\* the service call of p has gone through validateCepOrThrow
Validated(p) == geo[p].pc # "idle" /\ ret.op = "input"

\* C12: geocodeCep rejects its input as invalid exactly when the string is
\* not a well-formed postal code (8 digits, optionally hyphenated 5+3) or
\* its digits are all the same; a string with any other character is
\* rejected
C12_RejectsExactlyMalformed ==
    Validated("r1") =>
        ((geo["r1"].pc = "done" /\ geo["r1"].error \in InvalidCepMessages)
            <=> (~WellFormedCep(ret.key) \/ RepeatedDigit(ret.key)))

\* C13: a request whose postal code the route or the service rejects as
\* malformed is answered with status 400 and the code INVALID_CEP or
\* VALIDATION_ERROR
C13_MalformedIs400 ==
    (ret.op = "response" /\ (~WellFormedCep(ret.key) \/ RepeatedDigit(ret.key))) =>
        (ret.value = 400 /\ ret.path \in {"INVALID_CEP", "VALIDATION_ERROR"})

\* ViaCEP fails at the transport level in this step of the call of p
TransportFailure(p) ==
    \E variation \in Variations : ViaCepAnswer(p, "failure", variation)

\* C14: a geocodeCep call makes at most 1 + 3 calls to ViaCEP; an attempt
\* that fails at the transport level is retried after a delay while fewer
\* than 4 have been made and ends the call with SERVICE_UNAVAILABLE at the
\* fourth; a call that is waiting for ViaCEP or for a delay ends
C14_BoundedAttempts ==
    /\ [](\A p \in Procs : geo[p].vcalls <= MaxRetries + 1)
    /\ [][\A p \in Procs : TransportFailure(p) =>
              IF geo[p].vcalls < MaxRetries
              THEN geo'[p].pc = "delay"
              ELSE geo'[p].pc = "done" /\ geo'[p].error = "SERVICE_UNAVAILABLE"]_vars
    /\ \A p \in Procs : (geo[p].pc \in {"viacep", "delay"}) ~> (geo[p].pc = "done")

\* a call has ended with SERVICE_UNAVAILABLE after four calls to ViaCEP
C14_Witness ==
    /\ geo["r1"].pc = "done"
    /\ geo["r1"].vcalls = MaxRetries + 1
    /\ geo["r1"].error = "SERVICE_UNAVAILABLE"
    /\ now >= BaseDelay + 2 * BaseDelay + 4 * BaseDelay

\* ViaCEP answers in this step of the call of p that the code does not
\* exist: a body with the erro marker, or HTTP 404
NotFoundAnswer(p) ==
    \E answer \in {"erro", "status404"}, variation \in Variations :
        ViaCepAnswer(p, answer, variation)

\* C15: when ViaCEP answers that the code does not exist, by the erro
\* marker or by HTTP 404, getAddressFromViaCep makes no further attempt:
\* the call ends in that step with CEP_NOT_FOUND
C15_NotFoundIsTerminal ==
    [][\A p \in Procs : NotFoundAnswer(p) =>
            (geo'[p].pc = "done" /\ geo'[p].error = "CEP_NOT_FOUND")]_vars

\* the call of p has ended and its input had passed validateCepOrThrow
EndedAfterValidation(p) ==
    geo[p].pc = "done" /\ geo[p].error \notin InvalidCepMessages

\* C16: once its input has passed validation, geocodeCep either returns a
\* result or fails with exactly CEP_NOT_FOUND or SERVICE_UNAVAILABLE,
\* whatever ViaCEP does: transport error, HTTP error status, erro marker,
\* malformed body
C16_TwoFailureKinds ==
    \A p \in Procs : EndedAfterValidation(p) =>
        \/ geo[p].error = "" /\ geo[p].result # Null
        \/ geo[p].error \in {"CEP_NOT_FOUND", "SERVICE_UNAVAILABLE"}

\* OpenCage answers the query of the call of p in this step
OpenCageAnswered(p, answers) ==
    \E answer \in answers, variation \in Variations : OpenCageAnswer(p, answer, variation)

\* ViaCEP answers the call of p with an address in this step
AddressFound(p) ==
    \E answer \in {"address", "addressNoState"}, variation \in Variations :
        ViaCepAnswer(p, answer, variation)

\* getCoordinatesFromAddress comes to its end in this step of the call of p
CoordinatesEnd(p) ==
    \/ OpenCageAnswered(p, OpenCageAnswers)
    \/ AddressFound(p) /\ ~opencage

\* a pair of coordinates, in millionths of a degree
IsCoordinates(c) ==
    /\ DOMAIN c = {"latitude", "longitude"}
    /\ c.latitude \in -90000000..90000000
    /\ c.longitude \in -180000000..180000000

Estimates(address) == {EstimateCoordinates(address, variation) : variation \in Variations}

\* the call of p returns in this step coordinates of the estimator
EstimatorUsed(p) ==
    /\ geo[p].pc \in {"viacep", "opencage"}
    /\ geo'[p].result # Null
    /\ geo'[p].result.coordinates \in Estimates(geo'[p].result.address)

\* C18: OpenCage is queried exactly when a key is configured; the
\* estimator's coordinates are returned only when no key is configured or
\* the query to OpenCage has failed; the centre of Brazil is returned only
\* by the estimator for a state outside its 27-entry table
C18_ProviderOrder ==
    /\ [](\A p \in Procs : geo[p].pc = "opencage" \/ geo[p].gcalls > 0 => opencage)
    /\ [][\A p \in Procs :
            /\ AddressFound(p) => (opencage <=> geo'[p].pc = "opencage")
            /\ EstimatorUsed(p) =>
                    (~opencage \/ OpenCageAnswered(p, OpenCageAnswers \ {"result"}))
            /\ (geo[p].pc \in {"viacep", "opencage"} /\ geo'[p].result # Null
                    /\ geo'[p].result.coordinates = BrazilCenter) =>
                    /\ EstimatorUsed(p)
                    /\ geo'[p].result.address.uf \notin DOMAIN StateCoordinates]_vars

\* with an OpenCage key, a call has queried OpenCage and returned the
\* centre of Brazil
C18_Witness ==
    /\ opencage
    /\ geo["r1"].pc = "done"
    /\ geo["r1"].gcalls = 1
    /\ geo["r1"].result # Null
    /\ geo["r1"].result.coordinates = BrazilCenter

\* the first UTC midnight strictly after t
NextUtcMidnight(t) == (UtcDay(t) + 1) * DayMs

\* C19: when checkRateLimit denies a request, resetTime is the first UTC
\* midnight strictly after the time of the check, whatever the time of day
\* and the time zone of the host
C19_ResetAtUtcMidnight ==
    [][\A p \in Procs :
         (CheckReturns(p) /\ ~CheckOf(p).allowed) =>
             CheckOf(p).resetTime = NextUtcMidnight(now)]_vars

\* the usage key of a key id on a UTC day
DayKey(id, day) == <<"usage", id, day>>

StoredKey(st, secret) ==
    CacheGet(st, ApiKeyCacheKey(secret), now, isConnected, storeUp).value

BadKeyPresented(p) ==
    \E k \in {NoKey, BadKey}, route \in Routes : StartRequest(p, k, route)

\* C22: validateApiKey with an empty secret or one that does not start with
\* eon_ returns null at once: the request is answered 401 in the step that
\* presents the key, before any cacheService.get, set or delete, and the
\* store is left as it was
C22_NoPrefixNoStore ==
    [][\A p \in Procs : BadKeyPresented(p) =>
            /\ proc'[p].pc = "done"
            /\ proc'[p].status = 401
            /\ store' = store]_vars

\* a key without the prefix has been answered 401 while the store holds
\* the record of an issued key
C22_Witness ==
    /\ proc["r1"].pc = "done"
    /\ proc["r1"].key = BadKey
    /\ proc["r1"].status = 401
    /\ \E secret \in issued : StoredKey(store, secret) # Null

\* Redis holds a live record under apikey:<secret>
RecordExists(secret) ==
    LET e == store[ApiKeyCacheKey(secret)]
    IN e.present /\ now <= e.expireAt /\ ~EntryExpired(e, now)

\* the revoke controller's call of revokeApiKey returns in this step of p
RevokeReturns(p, success) ==
    /\ proc[p].pc \in {"rv_get", "rv_set"}
    /\ proc[p].caller = "controller"
    /\ proc'[p].pc = "done"
    /\ proc'[p].status = IF success THEN 200 ELSE 404

C24_SamePointIsZero ==
    (ret.op = "distance" /\ ret.origin = ret.destination) => ret.value = 0

\* calculateDistance has returned 0 for a point off the equator and off the
\* prime meridian, and the function is not constantly 0
C24_Witness ==
    /\ ret.op = "distance"
    /\ ret.origin = [latitude |-> -45, longitude |-> 45]
    /\ ret.destination = ret.origin
    /\ ret.value = 0
    /\ CalculateDistance(ret.origin, [latitude |-> 30, longitude |-> -60]) > 0

\* the usage record cacheService.get yields for (id, UTC date of t) at t
StoredUsage(st, id, t) ==
    CacheGet(st, UsageKey(id, t), t, isConnected, storeUp).value

\* its requestsToday, 0 when there is no record
StoredToday(st, id, t) ==
    IF StoredUsage(st, id, t) = Null THEN 0 ELSE StoredUsage(st, id, t).requestsToday

\* C25: with the store available and no concurrent call on the key, one
\* recordUsage(key) call writes, for (key.id, current UTC date), the usage
\* record it read with requestsToday raised by exactly 1, with a TTL of 24
\* hours, and leaves the stored ApiKey's usage field equal to that record
C25_RecordUsageAddsOne ==
    [][\A p \in Procs : Available =>
         /\ (proc[p].pc = "r_get" /\ proc'[p].pc = "r_setUsage") =>
               /\ proc'[p].uday = UtcDay(now)
               /\ proc'[p].usage.requestsToday = StoredToday(store, proc[p].apiKey.id, now) + 1
         /\ (proc[p].pc = "r_setUsage" /\ proc'[p].pc = "r_setKey") =>
               LET e == store'[<<"usage", proc[p].apiKey.id, proc[p].uday>>]
               IN /\ e.present
                  /\ e.data = JsonRoundTrip(proc[p].usage)
                  /\ e.ttl = 24 * 60 * 60
                  /\ e.expireAt = now + 24 * 60 * 60 * MsPerSecond
         /\ (proc[p].pc = "r_setKey" /\ proc'[p].pc # "r_setKey") =>
               LET k == store'[ApiKeyCacheKey(proc[p].apiKey.key)]
               IN /\ k.present
                  /\ k.data.usage = JsonRoundTrip(proc[p].usage)
                  /\ k.data.usage =
                       store'[<<"usage", proc[p].apiKey.id, proc[p].uday>>].data]_vars

\* a recordUsage call has found requestsToday = 1 and left 2 in the usage
\* record and in the stored ApiKey
C25_Witness ==
    /\ Available
    /\ proc["r1"].pc = "done"
    /\ proc["r1"].caller = "finish"
    /\ proc["r1"].usage.requestsToday = 2
    /\ StoredToday(store, proc["r1"].apiKey.id, now) = 2
    /\ StoredKey(store, proc["r1"].apiKey.key) # Null
    /\ StoredKey(store, proc["r1"].apiKey.key).usage.requestsToday = 2

\* the request of p ends in this step, its handler has run
AdmittedEnds(p) ==
    /\ proc[p].pc # "done"
    /\ proc'[p].pc = "done"
    /\ proc'[p].ran

\* the time of authenticate's checkRateLimit of the request, which allowed
\* it with resetTime = now + 24 h
CheckedAt(rec) == rec.rl1.resetTime - DayMs

\* requestsToday as that check found it
TodayAtCheck(rec) == rec.apiKey.rateLimit.requestsPerDay - rec.rl1.remaining

\* C26: a request admitted to a handler on a protected route raises the
\* key's requestsToday by exactly one: when it ends within the UTC day of
\* its rate-limit check, the stored count is one more than that check found
C26_OnePerAdmittedRequest ==
    [][\A p \in Procs :
         (Available /\ AdmittedEnds(p) /\ UtcDay(now') = UtcDay(CheckedAt(proc'[p]))) =>
             StoredToday(store', proc'[p].apiKey.id, now') = TodayAtCheck(proc'[p]) + 1]_vars

\* the fields of an ApiKey that recordUsage has no business with
KeptFields == {"status", "permissions", "rateLimit", "expiresAt"}

\* C27: recordUsage(key) changes only the usage field of the stored ApiKey
\* record: the stored status, permissions, rateLimit and expiresAt are the
\* same after its write as they were in the store immediately before it,
\* also when the key was revoked after this request's validateApiKey
C27_RecordUsageKeepsStatus ==
    [][\A p \in Procs :
         (Available /\ proc[p].pc = "r_setKey" /\ proc'[p].pc # "r_setKey"
            /\ StoredKey(store, proc[p].apiKey.key) # Null) =>
             \A f \in KeptFields :
               StoredKey(store', proc[p].apiKey.key)[f]
                 = StoredKey(store, proc[p].apiKey.key)[f]]_vars

\* the requests that can be in flight at the same time
InFlightMax == Cardinality(Procs)

\* C28: with at most K requests of one key in flight at the same time, no
\* more than requestsPerDay + K - 1 requests are admitted in a UTC day
C28_AdmittedWithinMargin ==
    ret.op = "admitted" =>
      ret.value <= RATE_LIMIT_PLANS("basic").requestsPerDay + InFlightMax - 1

\* the request of p is answered 401, 403 or 429 in this step
Rejected(p) ==
    /\ proc[p].pc # "done"
    /\ proc'[p].pc = "done"
    /\ proc'[p].status \in {401, 403, 429}

\* C29: a request to a protected route that is rejected with 401, 403 or 429
\* leaves the key's usage counters unchanged: it has made no recordUsage
\* call, and when its rate-limit check had passed, the usage record and the
\* usage of the stored ApiKey hold what that check found
C29_RejectedLeavesUsage ==
    [][\A p \in Procs : (Available /\ Rejected(p)) =>
         /\ proc'[p].usage = Null
         /\ (proc'[p].rl1 # Null /\ proc'[p].rl1.allowed
               /\ UtcDay(now') = UtcDay(CheckedAt(proc'[p]))) =>
              /\ StoredToday(store', proc'[p].apiKey.id, now') = TodayAtCheck(proc'[p])
              /\ StoredKey(store', proc'[p].apiKey.key).usage.requestsToday
                    = TodayAtCheck(proc'[p])]_vars

\* C30: the usage.totalRequests of a stored ApiKey counts all the requests
\* recorded for the key since its creation: with requests that do not
\* overlap no step makes it smaller, also across a UTC date change or the
\* expiry of a usage record
C30_TotalNeverDecreases ==
    [][\A secret \in issued :
         (StoredKey(store, secret) # Null /\ StoredKey(store', secret) # Null) =>
             StoredKey(store', secret).usage.totalRequests
               >= StoredKey(store, secret).usage.totalRequests]_vars

====
